---- MODULE Spec2Model ----
(***************************************************************************)
(* Model of fema_app.py: a Streamlit script that is re-executed top to     *)
(* bottom on every (re)run of a session.  One run is                       *)
(*   exists-check -> load_data (cached) -> required-column check ->        *)
(*   drop rows with missing values -> 0.99-quantile cap -> preview table   *)
(*   -> slider -> histogram -> boxplot.                                    *)
(*                                                                         *)
(* Numbers.  repairAmount is a float in the program.  The model keeps      *)
(* every amount as an exact fixed-point integer counting 1/Unit dollars,   *)
(* Unit = 2 * QuantileDen, so that half-dollar amounts and the linear      *)
(* interpolation by multiples of 1/100 are exact.  Floating-point rounding *)
(* of the interpolation is not modelled.                                   *)
(*                                                                         *)
(* Environment.  The CSV content is fixed for a session (a static file     *)
(* with a header row); the file may disappear from or come back to its     *)
(* path between two runs, never in the middle of one.                      *)
(***************************************************************************)
EXTENDS Integers, Sequences, FiniteSets, TLC

\* ------------------------------------------------------------------ bounds
MaxRows == 2
MaxRuns == 3

\* ------------------------------------------------------- program constants
QuantileNum == 99
QuantileDen == 100
Step == 500
PreviewRows == 50

Unit == 2 * QuantileDen

required_cols == {"repairAmount", "tsaEligible"}
OptionalPreviewCols == {"grossIncome", "residenceType", "damagedStateAbbreviation"}

\* ------------------------------------------------------------------- cells
\* A cell of a DataFrame: a number, the missing marker NaN, or a string that
\* read_csv kept as text.
Num(n) == [kind |-> "num", v |-> n, s |-> ""]
NaN == [kind |-> "nan", v |-> 0, s |-> ""]
Str(t) == [kind |-> "str", v |-> 0, s |-> t]

notna(c) == c.kind # "nan"

\* Numeric parse of one CSV token; every number is kept in the fixed-point
\* scale (token 1 is Unit).  Tokens that are not numerals have no value.
IsNumeral(tok) ==
    tok \in {"0", "1", "7", "100", "200", "300", "400", "1000", "3000",
             "100000", "200.5", "-1.5"}

NumeralValue(tok) ==
    CASE tok = "0" -> 0
      [] tok = "1" -> 1 * Unit
      [] tok = "7" -> 7 * Unit
      [] tok = "100" -> 100 * Unit
      [] tok = "200" -> 200 * Unit
      [] tok = "300" -> 300 * Unit
      [] tok = "400" -> 400 * Unit
      [] tok = "1000" -> 1000 * Unit
      [] tok = "3000" -> 3000 * Unit
      [] tok = "100000" -> 100000 * Unit
      [] tok = "200.5" -> 200 * Unit + Unit \div 2
      [] tok = "-1.5" -> -(Unit + Unit \div 2)

\* pd.read_csv on one field: empty field -> NaN, numeral -> number,
\* anything else stays text.
ReadCsvCell(tok) ==
    IF tok = "" THEN NaN
    ELSE IF IsNumeral(tok) THEN Num(NumeralValue(tok))
    ELSE Str(tok)

\* Variant: the coercion leaves text that is not a numeral in place.
ToNumericKeep(c) ==
    IF c.kind = "str" /\ IsNumeral(c.s) THEN Num(NumeralValue(c.s)) ELSE c

\* pd.to_numeric(..., errors="coerce") on one cell: text that is not a
\* numeral becomes NaN, nothing is raised.
ToNumericCoerce(c) ==
    IF c.kind = "str"
    THEN (IF IsNumeral(c.s) THEN Num(NumeralValue(c.s)) ELSE NaN)
    ELSE c

\* -------------------------------------------------------------- DataFrames
\* A DataFrame is a column set and a sequence of rows; each row carries its
\* index label (the 0-based position in the file) and its cells.
NoDF == [cols |-> {}, rows |-> <<>>]

RowIdx(d) == {d.rows[i].idx : i \in 1..Len(d.rows)}

\* Boolean-mask selection df[mask] keeps the rows whose mask entry is true,
\* in order, with their index labels: SelectSeq over the rows.

amount(r) == r.cells["repairAmount"]

\* ----------------------------------------------------------- the pipeline
\* pd.read_csv: every field of every row parsed, rows labelled 0, 1, 2, ...
read_csv(cols, rows) ==
    [cols |-> cols,
     rows |-> [i \in 1..Len(rows) |->
                 [idx |-> i - 1,
                  cells |-> [c \in cols |-> ReadCsvCell(rows[i][c])]]]]

\* Variant: the coercion is not guarded by the column test and raises
\* KeyError when repairAmount is absent.
load_data_body_unguarded(cols, rows) ==
    LET d == read_csv(cols, rows) IN
    IF "repairAmount" \in d.cols
    THEN [raised |-> FALSE,
          df |-> [d EXCEPT !.rows =
                    [i \in 1..Len(d.rows) |->
                       [d.rows[i] EXCEPT !.cells["repairAmount"] =
                                            ToNumericCoerce(@)]]]]
    ELSE [raised |-> TRUE, df |-> NoDF]

\* The body of load_data.  The result says whether the body raised.
load_data_body(cols, rows) ==
    LET d == read_csv(cols, rows) IN
    IF "repairAmount" \in d.cols
    THEN [raised |-> FALSE,
          df |-> [d EXCEPT !.rows =
                    [i \in 1..Len(d.rows) |->
                       [d.rows[i] EXCEPT !.cells["repairAmount"] =
                                            ToNumericCoerce(@)]]]]
    ELSE [raised |-> FALSE, df |-> d]

\* Variant: load_data without memoization.
cache_never_hit(c) == FALSE

\* @st.cache_data: a call with an argument already seen returns the stored
\* value without running the body.
cache_hit(c) == c.hit

\* required_cols - set(df.columns)
missing(d) == required_cols \ d.cols

\* Variant: the mask joined with | instead of &.
clean_mask_either(r) == notna(amount(r)) \/ notna(r.cells["tsaEligible"])

\* df["repairAmount"].notna() & df["tsaEligible"].notna()
clean_mask(r) == notna(amount(r)) /\ notna(r.cells["tsaEligible"])

cleanDataset(d) == [cols |-> d.cols, rows |-> SelectSeq(d.rows, clean_mask)]

\* Variant: the quantile taken without interpolation (the lower neighbour).
quantile_lower(xs) ==
    LET n == Len(xs)
        lo == (QuantileNum * (n - 1)) \div QuantileDen
    IN CHOOSE v \in {xs[i] : i \in 1..Len(xs)} :
          /\ Cardinality({i \in 1..Len(xs) : xs[i] < v}) <= lo
          /\ Cardinality({i \in 1..Len(xs) : xs[i] <= v}) > lo

\* Series.quantile(0.99), linear interpolation between order statistics.
\* xs is a non-empty sequence of amounts; Sorted(xs, k) is the k-th smallest,
\* k counted from 0.
Sorted(xs, k) ==
    CHOOSE v \in {xs[i] : i \in 1..Len(xs)} :
        /\ Cardinality({i \in 1..Len(xs) : xs[i] < v}) <= k
        /\ Cardinality({i \in 1..Len(xs) : xs[i] <= v}) > k

quantile(xs) ==
    LET n == Len(xs)
        pos == QuantileNum * (n - 1)
        lo == pos \div QuantileDen
        frac == pos % QuantileDen
        hi == IF lo + 1 <= n - 1 THEN lo + 1 ELSE lo
        a == Sorted(xs, lo)
        b == Sorted(xs, hi)
    IN a + (frac * (b - a)) \div QuantileDen

Amounts(d) == [i \in 1..Len(d.rows) |-> amount(d.rows[i]).v]

\* df[df["repairAmount"] <= bound]
at_most(r, bound) == amount(r).v <= bound

filter_le(d, bound) ==
    [cols |-> d.cols, rows |-> SelectSeq(d.rows, LAMBDA r : at_most(r, bound))]

\* Python int(): truncation toward zero of an amount, to whole dollars.
int(v) == IF v >= 0 THEN v \div Unit ELSE -((-v) \div Unit)

\* Series.min() of a non-empty column.
series_min(xs) == CHOOSE v \in {xs[i] : i \in 1..Len(xs)} : \A j \in 1..Len(xs) : v <= xs[j]

\* The bounds and default handed to st.slider.
slider_min(d) == int(series_min(Amounts(d)))
slider_max(cap) == int(cap)

\* Variant: the comparison of the histogram filter reversed.
filterByMax_reversed(d, m) ==
    [cols |-> d.cols,
     rows |-> SelectSeq(d.rows, LAMBDA r : amount(r).v >= m * Unit)]

\* df_plot[df_plot["repairAmount"] <= max_amount], max_amount in dollars.
filterByMax(d, m) == filter_le(d, m * Unit)

\* df[preview_cols].head(50)
preview_cols(d) == required_cols \cup (OptionalPreviewCols \cap d.cols)

head(rows, k) == SubSeq(rows, 1, IF Len(rows) < k THEN Len(rows) ELSE k)

preview_frame(d) ==
    [cols |-> preview_cols(d),
     rows |-> [i \in 1..Len(head(d.rows, PreviewRows)) |->
                 [idx |-> d.rows[i].idx,
                  cells |-> [c \in preview_cols(d) |-> d.rows[i].cells[c]]]]]

\* The values the session can hand back for the slider: the default, and
\* the positions min_value + k * step up to max_value.
SliderChoices(sl) ==
    {sl.min_value + k * Step : k \in 0..((sl.max_value - sl.min_value) \div Step)}
        \cup {sl.value}

\* ------------------------------------------------------------ the CSV file
AmountTokens == {"100", "200.5", "1000", "-1.5", "bad", ""}
EligibleTokens == {"0", "1", ""}
OtherTokens == {"7"}
AllTokens == AmountTokens \cup EligibleTokens \cup OtherTokens

TokensOf(c) ==
    IF c = "repairAmount" THEN AmountTokens
    ELSE IF c = "tsaEligible" THEN EligibleTokens
    ELSE OtherTokens

\* Headers: any subset of the required columns plus one passthrough column.
ColumnSets ==
    {S \cup {e} : S \in SUBSET required_cols, e \in {"disasterNumber", "grossIncome"}}

FileRowsOver(cols) ==
    {f \in [cols -> AllTokens] : \A c \in cols : f[c] \in TokensOf(c)}

FilesOver(cs) ==
    {[cols |-> cs, rows |-> rs] :
        rs \in UNION {[1..n -> FileRowsOver(cs)] : n \in 0..MaxRows}}

BoundedFiles == UNION {FilesOver(cs) : cs \in ColumnSets}

\* The two worked examples of the specification.
ExampleCoercionFile ==
    [cols |-> {"repairAmount", "tsaEligible"},
     rows |-> << [repairAmount |-> "1000", tsaEligible |-> "1"],
                 [repairAmount |-> "bad", tsaEligible |-> "0"],
                 [repairAmount |-> "3000", tsaEligible |-> ""] >>]

ExampleQuantileFile ==
    [cols |-> {"repairAmount", "tsaEligible"},
     rows |-> << [repairAmount |-> "100", tsaEligible |-> "1"],
                 [repairAmount |-> "100000", tsaEligible |-> "0"],
                 [repairAmount |-> "300", tsaEligible |-> "1"],
                 [repairAmount |-> "200", tsaEligible |-> "0"],
                 [repairAmount |-> "400", tsaEligible |-> "1"] >>]

Files == BoundedFiles \cup {ExampleCoercionFile, ExampleQuantileFile}

\* ------------------------------------------------------------------- state
VARIABLES
    fileExists,   \* Path(DATA_FILE).exists()
    fileCols,     \* header of the CSV at DATA_FILE
    fileRows,     \* data rows of the CSV at DATA_FILE (tokens)
    cache,        \* st.cache_data entry for load_data(DATA_FILE)
    loadCount,    \* number of executions of the body of load_data
    widget,       \* slider value kept by the session between runs
    runs,         \* number of script runs started
    pc,           \* position of the current run in the script
    err,          \* st.error / exception shown by the current run
    calledLoad,   \* the current run has called load_data
    df,           \* the script variable df
    upper_cap,    \* the script variable upper_cap (1/Unit dollars)
    df_plot,      \* the script variable df_plot
    slider,       \* min_value, max_value, value handed to st.slider
    max_amount,   \* the script variable max_amount (whole dollars)
    df_hist,      \* the script variable df_hist
    preview,      \* the frame handed to st.dataframe
    rendered      \* the elements the current run has put on the page

fileVars == <<fileCols, fileRows>>
runVars == <<err, calledLoad, df, upper_cap, df_plot, slider, max_amount, df_hist, preview, rendered>>
vars == <<fileExists, fileCols, fileRows, cache, loadCount, widget, runs, pc,
          err, calledLoad, df, upper_cap, df_plot, slider, max_amount, df_hist, preview,
          rendered>>

NoErr == [kind |-> "none", cols |-> {}]
NoCache == [hit |-> FALSE, df |-> NoDF]
NoWidget == [set |-> FALSE, v |-> 0]
NoSlider == [shown |-> FALSE, min_value |-> 0, max_value |-> 0, value |-> 0]

Init ==
    /\ fileExists \in BOOLEAN
    /\ \E f \in Files : fileCols = f.cols /\ fileRows = f.rows
    /\ cache = NoCache
    /\ loadCount = 0
    /\ widget = NoWidget
    /\ runs = 0
    /\ pc = "idle"
    /\ err = NoErr
    /\ calledLoad = FALSE
    /\ df = NoDF
    /\ upper_cap = 0
    /\ df_plot = NoDF
    /\ slider = NoSlider
    /\ max_amount = 0
    /\ df_hist = NoDF
    /\ preview = NoDF
    /\ rendered = {}

\* ------------------------------------------------------------------ actions
Ended == pc \in {"idle", "done", "stopped", "crashed"}

\* A run starts at the top of the script with fresh script variables.
BeginRun ==
    /\ runs < MaxRuns
    /\ runs' = runs + 1
    /\ pc' = "check"
    /\ err' = NoErr
    /\ calledLoad' = FALSE
    /\ df' = NoDF
    /\ upper_cap' = 0
    /\ df_plot' = NoDF
    /\ slider' = NoSlider
    /\ max_amount' = 0
    /\ df_hist' = NoDF
    /\ preview' = NoDF
    /\ rendered' = {}

\* The page is opened, or the user asks for a rerun.
Rerun ==
    /\ Ended
    /\ BeginRun
    /\ UNCHANGED <<fileExists, fileVars, cache, loadCount, widget>>

\* The user moves the slider; Streamlit stores the value and reruns.
MoveSlider(m) ==
    /\ pc = "done"
    /\ m \in SliderChoices(slider)
    /\ m # max_amount
    /\ widget' = [set |-> TRUE, v |-> m]
    /\ BeginRun
    /\ UNCHANGED <<fileExists, fileVars, cache, loadCount>>

\* The file is removed from, or put back at, DATA_FILE between two runs.
DeleteFile ==
    /\ Ended
    /\ fileExists
    /\ fileExists' = FALSE
    /\ UNCHANGED <<fileVars, cache, loadCount, widget, runs, pc, runVars>>

RestoreFile ==
    /\ Ended
    /\ ~fileExists
    /\ fileExists' = TRUE
    /\ UNCHANGED <<fileVars, cache, loadCount, widget, runs, pc, runVars>>

\* st.stop() / an uncaught exception: the run ends; a slider the run did
\* not render loses its stored value.
Halt(how, e) ==
    /\ pc' = how
    /\ err' = e
    /\ rendered' = rendered \cup {"error"}
    /\ widget' = IF "slider" \in rendered THEN widget ELSE NoWidget

\* Variant: the error is shown but st.stop() is not called.
CheckFile_no_stop ==
    /\ pc = "check"
    /\ pc' = "load"
    /\ IF ~fileExists
       THEN /\ err' = [kind |-> "NotFound", cols |-> {}]
            /\ rendered' = rendered \cup {"error"}
       ELSE UNCHANGED <<err, rendered>>
    /\ UNCHANGED <<fileExists, fileVars, cache, loadCount, widget, runs, calledLoad,
                   df, upper_cap, df_plot, slider, max_amount, df_hist, preview>>

\* if not Path(DATA_FILE).exists(): st.error(...); st.stop()
CheckFile ==
    /\ pc = "check"
    /\ IF ~fileExists
       THEN Halt("stopped", [kind |-> "NotFound", cols |-> {}])
       ELSE /\ pc' = "load"
            /\ UNCHANGED <<err, rendered, widget>>
    /\ UNCHANGED <<fileExists, fileVars, cache, loadCount, runs, calledLoad, df,
                   upper_cap, df_plot, slider, max_amount, df_hist, preview>>

\* df = load_data(DATA_FILE)
LoadData ==
    /\ pc = "load"
    /\ calledLoad' = TRUE
    /\ IF cache_hit(cache)
       THEN /\ df' = cache.df
            /\ pc' = "schema"
            /\ UNCHANGED <<cache, loadCount, err, rendered, widget>>
       ELSE LET res == load_data_body(fileCols, fileRows) IN
            /\ loadCount' = loadCount + 1
            /\ IF res.raised
               THEN /\ Halt("crashed", [kind |-> "KeyError", cols |-> {}])
                    /\ UNCHANGED <<cache, df>>
               ELSE /\ cache' = [hit |-> TRUE, df |-> res.df]
                    /\ df' = res.df
                    /\ pc' = "schema"
                    /\ UNCHANGED <<err, rendered, widget>>
    /\ UNCHANGED <<fileExists, fileVars, runs, upper_cap, df_plot, slider,
                   max_amount, df_hist, preview>>

\* missing = required_cols - set(df.columns); if missing: st.error; st.stop
SchemaCheck ==
    /\ pc = "schema"
    /\ IF missing(df) # {}
       THEN Halt("stopped", [kind |-> "Schema", cols |-> missing(df)])
       ELSE /\ pc' = "clean"
            /\ UNCHANGED <<err, rendered, widget>>
    /\ UNCHANGED <<fileExists, fileVars, cache, loadCount, runs, calledLoad, df,
                   upper_cap, df_plot, slider, max_amount, df_hist, preview>>

\* df = df[notna & notna].copy()
Clean ==
    /\ pc = "clean"
    /\ df' = cleanDataset(df)
    /\ pc' = "cap"
    /\ UNCHANGED <<fileExists, fileVars, cache, loadCount, widget, runs, err,
                   calledLoad, upper_cap, df_plot, slider, max_amount, df_hist,
                   preview, rendered>>

\* Variant: rows equal to the cap are left out of the view.
capOutliers_strict(d) ==
    IF d.rows = <<>>
    THEN [cap |-> 0, view |-> d]
    ELSE LET cap == quantile(Amounts(d)) IN
         [cap |-> cap,
          view |-> [cols |-> d.cols,
                    rows |-> SelectSeq(d.rows, LAMBDA r : amount(r).v < cap)]]

\* upper_cap = quantile(0.99); df_plot = df[repairAmount <= upper_cap].copy()
\* The quantile of an empty column is NaN and the comparison with NaN keeps
\* no row; upper_cap is then not a number and is left at 0 here, the slider
\* step below raises on it.
capOutliers(d) ==
    IF d.rows = <<>>
    THEN [cap |-> 0, view |-> d]
    ELSE LET cap == quantile(Amounts(d)) IN [cap |-> cap, view |-> filter_le(d, cap)]

Cap ==
    /\ pc = "cap"
    /\ upper_cap' = capOutliers(df).cap
    /\ df_plot' = capOutliers(df).view
    /\ pc' = "preview"
    /\ UNCHANGED <<fileExists, fileVars, cache, loadCount, widget, runs, err,
                   calledLoad, df, slider, max_amount, df_hist, preview, rendered>>

\* st.dataframe(df[preview_cols].head(50))
Preview ==
    /\ pc = "preview"
    /\ preview' = preview_frame(df)
    /\ rendered' = rendered \cup {"table"}
    /\ pc' = "slider"
    /\ UNCHANGED <<fileExists, fileVars, cache, loadCount, widget, runs, err,
                   calledLoad, df, upper_cap, df_plot, slider, max_amount, df_hist>>

\* max_amount = st.slider(min_value=int(min), max_value=int(upper_cap),
\*                        value=int(upper_cap), step=500)
\* int(NaN) raises ValueError when no row survived the cleaning.
slider_args(d, cap) ==
    [shown |-> TRUE, min_value |-> slider_min(d), max_value |-> slider_max(cap),
     value |-> slider_max(cap)]

Slider ==
    /\ pc = "slider"
    /\ IF df_plot.rows = <<>>
       THEN /\ Halt("crashed", [kind |-> "ValueError", cols |-> {}])
            /\ UNCHANGED <<slider, max_amount>>
       ELSE /\ slider' = slider_args(df_plot, upper_cap)
            /\ max_amount' = IF widget.set THEN widget.v ELSE slider'.value
            /\ rendered' = rendered \cup {"slider"}
            /\ pc' = "hist"
            /\ UNCHANGED <<err, widget>>
    /\ UNCHANGED <<fileExists, fileVars, cache, loadCount, runs, calledLoad, df,
                   upper_cap, df_plot, df_hist, preview>>

\* df_hist = df_plot[repairAmount <= max_amount]; px.histogram; plotly_chart
Hist ==
    /\ pc = "hist"
    /\ df_hist' = filterByMax(df_plot, max_amount)
    /\ rendered' = rendered \cup {"histogram"}
    /\ pc' = "box"
    /\ UNCHANGED <<fileExists, fileVars, cache, loadCount, widget, runs, err,
                   calledLoad, df, upper_cap, df_plot, slider, max_amount, preview>>

\* px.box(df_plot, ...); plotly_chart; st.success
Box ==
    /\ pc = "box"
    /\ rendered' = rendered \cup {"boxplot", "success"}
    /\ pc' = "done"
    /\ UNCHANGED <<fileExists, fileVars, cache, loadCount, widget, runs, err,
                   calledLoad, df, upper_cap, df_plot, slider, max_amount, df_hist,
                   preview>>

Next ==
    \/ Rerun
    \/ \E m \in SliderChoices(slider) : MoveSlider(m)
    \/ DeleteFile
    \/ RestoreFile
    \/ CheckFile
    \/ LoadData
    \/ SchemaCheck
    \/ Clean
    \/ Cap
    \/ Preview
    \/ Slider
    \/ Hist
    \/ Box

Spec == Init /\ [][Next]_vars

\* ------------------------------------------------------------- properties
\* Positions of a run.
PastClean ==
    \/ pc \in {"cap", "preview", "slider", "hist", "box", "done"}
    \/ pc = "crashed" /\ err.kind = "ValueError"

PastCap ==
    \/ pc \in {"preview", "slider", "hist", "box", "done"}
    \/ pc = "crashed" /\ err.kind = "ValueError"

PastHist == pc \in {"box", "done"}

bothDefined(r) == r.cells["repairAmount"].kind # "nan" /\ r.cells["tsaEligible"].kind # "nan"

\* sub is an order-preserving selection of the rows of d: every row of sub
\* is the row of d with the same label, and labels increase.
IsOrderedSelection(sub, d) ==
    /\ sub.cols = d.cols
    /\ \A i \in 1..Len(sub.rows) :
          \E j \in 1..Len(d.rows) : sub.rows[i] = d.rows[j]
    /\ \A i, k \in 1..Len(sub.rows) : i < k => sub.rows[i].idx < sub.rows[k].idx

IsExampleCoercion == fileCols = ExampleCoercionFile.cols /\ fileRows = ExampleCoercionFile.rows
IsExampleQuantile == fileCols = ExampleQuantileFile.cols /\ fileRows = ExampleQuantileFile.rows

\* C1: after the cleaning step, df is exactly the subsequence of the loaded
\* dataset made of the records whose repairAmount and tsaEligible are both
\* defined: nothing retained has a missing value, nothing with both values
\* is dropped, and order is kept.
C1_CleanIsExactSubsequence ==
    PastClean =>
        /\ IsOrderedSelection(df, cache.df)
        /\ \A i \in 1..Len(df.rows) : bothDefined(df.rows[i])
        /\ \A j \in 1..Len(cache.df.rows) :
              bothDefined(cache.df.rows[j]) => cache.df.rows[j].idx \in RowIdx(df)

C1_Witness ==
    /\ PastClean
    /\ Len(df.rows) >= 1
    /\ Len(df.rows) < Len(cache.df.rows)
    /\ df.rows[1].idx > 0

\* C2: a run that finds the data file absent reports the not-found error and
\* stops there; it does not call load_data, has no dataset, and renders no
\* table, slider or chart, also when an earlier run cached a load.
C2_AbsentFileHalts ==
    /\ [](pc \in {"load", "schema", "clean", "cap", "preview", "slider", "hist", "box"}
            => fileExists)
    /\ []((pc = "stopped" /\ err.kind = "NotFound") =>
            /\ ~calledLoad
            /\ df = NoDF /\ df_plot = NoDF /\ df_hist = NoDF /\ preview = NoDF
            /\ rendered = {"error"})
    /\ [][(pc = "check" /\ ~fileExists) =>
            /\ pc' = "stopped"
            /\ err'.kind = "NotFound"
            /\ loadCount' = loadCount
            /\ cache' = cache]_vars

C2_Witness ==
    /\ pc = "stopped"
    /\ err.kind = "NotFound"
    /\ cache.hit
    /\ runs >= 2

\* C3: an existing file lacking required columns ends in a schema error
\* naming exactly the missing required columns, before cleaning, capping and
\* rendering; load_data raises nothing; with both columns present there is
\* no schema error.
C3_SchemaError ==
    /\ [](PastClean \/ pc = "clean" => required_cols \subseteq fileCols)
    /\ [](err.kind # "KeyError")
    /\ []((pc = "stopped" /\ err.kind = "Schema") =>
            /\ err.cols = required_cols \ fileCols
            /\ err.cols # {}
            /\ rendered = {"error"}
            /\ df_plot = NoDF /\ df_hist = NoDF /\ preview = NoDF)
    /\ [][(pc = "load") => (pc' = "schema" /\ err' = NoErr)]_vars
    /\ [][(pc = "schema") =>
            IF required_cols \subseteq fileCols
            THEN pc' = "clean" /\ err' = NoErr
            ELSE pc' = "stopped" /\ err'.kind = "Schema"]_vars

C3_Witness ==
    /\ pc = "stopped"
    /\ err.kind = "Schema"
    /\ err.cols = {"repairAmount"}
    /\ Len(fileRows) >= 1

\* C4: for a cleaned dataset with at least one row, df_plot is exactly the
\* order-preserving selection of the rows of df with repairAmount <=
\* upper_cap, so upper_cap bounds every amount of df_plot; df, which feeds
\* the preview table, is not changed by the capping.
C4_CapOutliers ==
    /\ []((PastCap /\ df.rows # <<>>) =>
            /\ IsOrderedSelection(df_plot, df)
            /\ \A i \in 1..Len(df_plot.rows) : amount(df_plot.rows[i]).v <= upper_cap
            /\ \A j \in 1..Len(df.rows) :
                  amount(df.rows[j]).v <= upper_cap => df.rows[j].idx \in RowIdx(df_plot))
    /\ []((PastCap /\ "table" \in rendered) =>
            [i \in 1..Len(preview.rows) |-> preview.rows[i].idx]
                = [i \in 1..Len(df.rows) |-> df.rows[i].idx])
    /\ [][(pc \in {"cap", "preview", "slider", "hist", "box"}) => df' = df]_vars

C4_Witness ==
    /\ PastCap
    /\ "table" \in rendered
    /\ Len(df_plot.rows) >= 1
    /\ Len(df_plot.rows) < Len(df.rows)

\* The smallest repairAmount of a non-empty frame and the clamp of a bound.
MinAmount(d) ==
    CHOOSE v \in {amount(d.rows[i]).v : i \in 1..Len(d.rows)} :
        \A j \in 1..Len(d.rows) : v <= amount(d.rows[j]).v

Clamp(v, lo, hi) == IF v < lo THEN lo ELSE IF v > hi THEN hi ELSE v

\* C5: the histogram view is the set of df_plot rows with repairAmount <=
\* clamp(max_amount, min(repairAmount), upper_cap); in particular at every
\* value the slider delivers the view still holds the rows with the minimum
\* repairAmount.
C5_FilterByMaxClamps ==
    PastHist =>
        /\ RowIdx(df_hist) =
              {df_plot.rows[i].idx : i \in
                 {k \in 1..Len(df_plot.rows) :
                    amount(df_plot.rows[k]).v
                       <= Clamp(max_amount * Unit, MinAmount(df_plot), upper_cap)}}
        /\ \A i \in 1..Len(df_plot.rows) :
              amount(df_plot.rows[i]).v = MinAmount(df_plot)
                 => df_plot.rows[i].idx \in RowIdx(df_hist)

\* C6: the upper bound and initial value handed to the slider is upper_cap,
\* so that at the initial setting the histogram view holds every row of
\* df_plot.
C6_SliderMaxIsCap ==
    (PastHist /\ ~widget.set) =>
        /\ slider.max_value * Unit = upper_cap
        /\ slider.value * Unit = upper_cap
        /\ RowIdx(df_hist) = RowIdx(df_plot)

\* C7: over all runs of a session the body of load_data executes at most
\* once; every run that gets past the load holds the cached Dataset, and no
\* step of a run (cleaning and capping included) changes the cached Dataset.
C7_LoadOnceAndCacheStable ==
    /\ [](loadCount <= 1)
    /\ []((pc = "schema") => (cache.hit /\ df = cache.df))
    /\ []((cache.hit) => (loadCount = 1 /\ cache.df.cols = fileCols))
    /\ [][(cache.hit) => (cache' = cache /\ loadCount' = loadCount)]_vars

C7_Witness ==
    /\ pc = "done"
    /\ runs >= 2
    /\ widget.set
    /\ loadCount = 1
    /\ Len(df_plot.rows) < Len(cache.df.rows)

\* C8: a repairAmount field that is not a numeral becomes the missing marker
\* in the loaded dataset, load_data raises nothing, every other cell is what
\* read_csv produced, and the row is gone after the cleaning step; of the
\* rows ("1000", 1), ("bad", 0), ("3000", missing) only the first survives.
C8_CoercionToMissing ==
    /\ []((cache.hit /\ "repairAmount" \in fileCols) =>
            /\ Len(cache.df.rows) = Len(fileRows)
            /\ \A i \in 1..Len(fileRows) :
                  /\ cache.df.rows[i].cells["repairAmount"] =
                        IF IsNumeral(fileRows[i]["repairAmount"])
                        THEN Num(NumeralValue(fileRows[i]["repairAmount"]))
                        ELSE NaN
                  /\ \A c \in fileCols \ {"repairAmount"} :
                        cache.df.rows[i].cells[c] = ReadCsvCell(fileRows[i][c]))
    /\ [](PastClean =>
            \A i \in 1..Len(fileRows) :
               ~IsNumeral(fileRows[i]["repairAmount"]) => (i - 1) \notin RowIdx(df))
    /\ []((PastClean /\ IsExampleCoercion) => RowIdx(df) = {0})
    /\ [](err.kind # "KeyError")
    /\ [][(pc = "load") => (pc' = "schema" /\ err' = NoErr)]_vars

C8_Witness ==
    /\ PastClean
    /\ IsExampleCoercion
    /\ Len(df.rows) = 1

\* C9: filtering df_plot by a maximum is monotonic in the maximum: a row
\* included at a bound is included at every larger bound, and the view at
\* any bound is an order-preserving selection of df_plot.
ProbeBounds(d) ==
    UNION {{int(amount(d.rows[i]).v) + e : e \in {-1, 0, 1}} : i \in 1..Len(d.rows)}
        \cup {int(upper_cap), int(upper_cap) + 1}
        \cup {m \in SliderChoices(slider) : m <= slider.min_value + 2 * Step}

C9_FilterByMaxMonotonic ==
    /\ (PastCap /\ df_plot.rows # <<>>) =>
          \A m1, m2 \in ProbeBounds(df_plot) :
             /\ IsOrderedSelection(filterByMax(df_plot, m1), df_plot)
             /\ m1 <= m2 =>
                   RowIdx(filterByMax(df_plot, m1)) \subseteq RowIdx(filterByMax(df_plot, m2))
    /\ PastHist =>
          /\ IsOrderedSelection(df_hist, df_plot)
          /\ \A i \in 1..Len(df_plot.rows) :
                (\E k \in 1..Len(df_hist.rows) :
                    amount(df_plot.rows[i]).v <= amount(df_hist.rows[k]).v)
                   => df_plot.rows[i].idx \in RowIdx(df_hist)

C9_Witness ==
    /\ pc = "done"
    /\ widget.set
    /\ Len(df_hist.rows) >= 1
    /\ Len(df_hist.rows) < Len(df_plot.rows)

\* C10: upper_cap is the linear-interpolation 0.99 quantile of the cleaned
\* repairAmount values: with x sorted ascending and h = 0.99 * (n - 1),
\* upper_cap = x[floor(h)] + (h - floor(h)) * (x[floor(h) + 1] - x[floor(h)]).
\* For [100, 200, 300, 400, 100000] it is 96016 and 100000 is left out of
\* df_plot; for a single row it is that row's value and the row is kept.
RECURSIVE InsertSorted(_, _)
InsertSorted(x, xs) ==
    IF xs = <<>> THEN <<x>>
    ELSE IF x <= Head(xs) THEN <<x>> \o xs
    ELSE <<Head(xs)>> \o InsertSorted(x, Tail(xs))

RECURSIVE Ascending(_)
Ascending(xs) == IF xs = <<>> THEN <<>> ELSE InsertSorted(Head(xs), Ascending(Tail(xs)))

C10_CapIsInterpolatedQuantile ==
    /\ (PastCap /\ df.rows # <<>>) =>
          LET x == Ascending(Amounts(df))
              n == Len(x)
              fl == CHOOSE k \in 0..(n - 1) :
                       QuantileDen * k <= QuantileNum * (n - 1)
                          /\ QuantileNum * (n - 1) < QuantileDen * (k + 1)
              nxt == IF fl + 2 <= n THEN x[fl + 2] ELSE x[fl + 1]
          IN QuantileDen * upper_cap =
                QuantileDen * x[fl + 1]
                   + (QuantileNum * (n - 1) - QuantileDen * fl) * (nxt - x[fl + 1])
    /\ (PastCap /\ IsExampleQuantile) =>
          /\ upper_cap = 96016 * Unit
          /\ upper_cap > 400 * Unit
          /\ RowIdx(df_plot) = {0, 2, 3, 4}
    /\ (PastCap /\ Len(df.rows) = 1) =>
          /\ upper_cap = amount(df.rows[1]).v
          /\ df_plot = df

C10_Witness ==
    /\ PastCap
    /\ IsExampleQuantile
    /\ Len(df_plot.rows) = 4

====
